---- MODULE Spec2Model ----
(***************************************************************************)
(* Road-survey viewer: the navigation controller of src/app.js (the        *)
(* graph-based variant, lines 1-283, and the flat-image variant, lines     *)
(* 284-508) and the image provider of src/my-road-viewer/data-provider.js. *)
(* Strings are TLA+ strings; image ids are built by concatenation and      *)
(* inspected by substring search, as the code does.                        *)
(***************************************************************************)
EXTENDS Integers, Sequences, FiniteSets, TLC

VARIABLES
    variant,            \* "graph" (app.js 1-283) or "flat" (app.js 284-508)
    surveyData,         \* the loaded, id-sorted rows
    currentPointIndex,  \* 0-based, as in the code
    isShowingFront,
    isViewerMode,
    viewerInitialized,  \* graph variant only
    dataProvider,       \* graph variant: the CustomDataProvider, once built
    viewer,             \* graph variant: the engine handle and the image it shows
    surveyImage,        \* flat variant: src of the #survey-image element
    titleInfo,          \* contents of #title-info
    prevDisabled,       \* #prev-point-btn.disabled
    nextDisabled,       \* #next-point-btn.disabled
    minimap,            \* minimap view and its circle markers
    markers,            \* style of each map marker, in dataset order
    map,                \* main map view (center, zoom)
    timers,             \* pending setTimeout callbacks of enterViewerMode
    lastEvent,          \* the handler that ran last, with its argument
    refreshed,          \* the display refreshes that handler issued
    threw,              \* whether that handler ended in an uncaught TypeError
    toggled,            \* consecutive switch-view runs, with the state before them
    constructions,      \* how many times initViewer built the provider and viewer
    pending,            \* image ids asked of the engine and not yet reported, oldest first
    reply               \* the promise settled last (a provider query, the CSV
                        \* load), with its outcome

vars == <<variant, surveyData, currentPointIndex, isShowingFront, isViewerMode,
          viewerInitialized, dataProvider, viewer, surveyImage, titleInfo,
          prevDisabled, nextDisabled, minimap, markers, map, timers,
          lastEvent, refreshed, threw, toggled, constructions, pending, reply>>

----------------------------------------------------------------------------
(* Bounds of the model *)

MaxPoints == 3
MaxTimers == 2
MaxZoomLevel == 1
MaxIds == 2
MaxHeading == 360
CellSize == 4
MaxRows == 2

----------------------------------------------------------------------------
(* Strings *)

\* String.prototype.includes
Includes(s, sub) ==
    \E k \in 0..(Len(s) - Len(sub)) : SubSeq(s, k + 1, k + Len(sub)) = sub

Collation == "_0123456789abcdefghijklmnopqrstuvwxyz"

CharRank(c) == CHOOSE k \in 1..Len(Collation) : SubSeq(Collation, k, k) = c

\* String(a).localeCompare(String(b)) < 0, for strings over Collation
StrLess(a, b) ==
    \/ /\ Len(a) < Len(b)
       /\ SubSeq(b, 1, Len(a)) = a
    \/ \E k \in 1..Len(a) :
          /\ k <= Len(b)
          /\ SubSeq(a, 1, k - 1) = SubSeq(b, 1, k - 1)
          /\ CharRank(SubSeq(a, k, k)) < CharRank(SubSeq(b, k, k))

----------------------------------------------------------------------------
(* The survey dataset *)

Row(id, lat, long, heading, front, rear) ==
    [id |-> id, lat |-> lat, long |-> long, heading_front |-> heading,
     front |-> front, rear |-> rear]

\* Rows a CSV may hold; every required field is present and truthy, as the
\* loader's filter demands.  One id contains the text "_front".
PointUniverse ==
    { Row("1", 10, 20, 90, "f1.jpg", "r1.jpg"),
      Row("2", 10, 22, 180, "f2.jpg", "r2.jpg"),
      Row("3", 12, 22, 270, "f3.jpg", "r3.jpg"),
      Row("3_front", 12, 24, 359, "f4.jpg", "r4.jpg") }

\* validData.sort((a, b) => String(a.id).localeCompare(String(b.id)))
SortById(S) ==
    CHOOSE s \in [1..Cardinality(S) -> S] :
        \A i, j \in 1..Cardinality(S) : i < j => StrLess(s[i].id, s[j].id)

Datasets ==
    { SortById(S) : S \in { T \in SUBSET PointUniverse :
                              Cardinality(T) \in 1..MaxPoints } }

\* surveyData[i]; a read past the array (which C1_IndexInRange rules out)
\* yields a row of empty fields
PointAt(i) ==
    IF i + 1 \in DOMAIN surveyData
    THEN surveyData[i + 1]
    ELSE Row("", 0, 0, 0, "", "")

Length == Len(surveyData)

----------------------------------------------------------------------------
(* The image provider (data-provider.js) *)

\* `point${point.id}_${view}`
ImageId(pointId, view) == "point" \o pointId \o "_" \o view

\* _createImageEnt; angles are kept in degrees (the code multiplies by PI/180)
CreateImageEnt(id, sequenceId, lat, lng, headingDeg, imageUrl, pointId) ==
    [id |-> id,
     sequence |-> [id |-> sequenceId],
     computed_geometry |-> [lat |-> lat, lng |-> lng],
     geometry |-> [lat |-> lat, lng |-> lng],
     computed_rotation |-> <<90, 0, headingDeg>>,
     thumb |-> [id |-> id \o "_thumb", url |-> imageUrl],
     point_id |-> pointId]

RearHeadingUnwrapped(headingFront) == headingFront + 180

\* rearHeadingRad: ((point.heading_front + 180) % 360), in degrees
RearHeading(headingFront) == (headingFront + 180) % 360

FrontImage(point) ==
    CreateImageEnt(ImageId(point.id, "front"), "seq_front", point.lat, point.long,
                   point.heading_front, "./images/" \o point.front, point.id)

RearImage(point) ==
    CreateImageEnt(ImageId(point.id, "rear"), "seq_rear", point.lat, point.long,
                   RearHeading(point.heading_front), "./images/" \o point.rear,
                   point.id)

\* Map.prototype.set, applied to a list of entities in order
RECURSIVE SetAll(_, _)
SetAll(m, ents) ==
    IF ents = <<>>
    THEN m
    ELSE SetAll([x \in DOMAIN m \cup {Head(ents).id} |->
                    IF x = Head(ents).id THEN Head(ents) ELSE m[x]],
                Tail(ents))

\* the entities in the order the forEach inserts them: front, rear per point
RECURSIVE InsertionOrder(_)
InsertionOrder(data) ==
    IF data = <<>>
    THEN <<>>
    ELSE <<FrontImage(Head(data)), RearImage(Head(data))>>
            \o InsertionOrder(Tail(data))

\* frontImages and rearImages, in the order of the forEach
FrontImages(data) == [i \in 1..Len(data) |-> FrontImage(data[i])]

RearImages(data) == [i \in 1..Len(data) |-> RearImage(data[i])]

ImageIdsReversed(images) ==
    [i \in 1..Len(images) |-> images[Len(images) + 1 - i].id]

\* images.map(img => img.id)
ImageIds(images) == [i \in 1..Len(images) |-> images[i].id]

\* this._geometry.lngLatToCellId({lat, lng}): the cell of the S2 grid that
\* holds the position; the grid is modelled by squares of side CellSize
CellId(lat, lng) == <<lat \div CellSize, lng \div CellSize>>

PushReplacing(bucket, image) == <<image>>

\* this.cells.get(cellId).push(image)
Push(bucket, image) == Append(bucket, image)

\* allImages.forEach: each image goes to the bucket of its cell, which is
\* created empty when the cell has none
RECURSIVE PushAll(_, _)
PushAll(cells, images) ==
    IF images = <<>>
    THEN cells
    ELSE LET image == Head(images)
             cellId == CellId(image.computed_geometry.lat,
                              image.computed_geometry.lng)
             bucket == IF cellId \in DOMAIN cells THEN cells[cellId] ELSE <<>>
         IN  PushAll([c \in DOMAIN cells \cup {cellId} |->
                         IF c = cellId THEN Push(bucket, image) ELSE cells[c]],
                     Tail(images))

\* constructor + _processSurveyData: the id map, the two sequences, the cells
ProcessSurveyData(data) ==
    [built |-> TRUE,
     images |-> SetAll(<<>>, InsertionOrder(data)),
     sequences |->
        [seq_front |-> [id |-> "seq_front",
                        image_ids |-> ImageIds(FrontImages(data))],
         seq_rear |-> [id |-> "seq_rear",
                       image_ids |-> ImageIds(RearImages(data))]],
     cells |-> PushAll(<<>>, FrontImages(data) \o RearImages(data))]

\* `let dataProvider;` before initViewer runs
NoProvider ==
    [built |-> FALSE, images |-> <<>>,
     sequences |-> [seq_front |-> [id |-> "seq_front", image_ids |-> <<>>],
                    seq_rear |-> [id |-> "seq_rear", image_ids |-> <<>>]],
     cells |-> <<>>]

\* what a provider method hands back: a promise, resolved or rejected
Resolved(op, arg, value) ==
    [op |-> op, arg |-> arg, outcome |-> "resolved", value |-> value]

Rejected(op, arg, error) ==
    [op |-> op, arg |-> arg, outcome |-> "rejected", value |-> error]

\* new Error(message)
Error(message) == [name |-> "Error", message |-> message]

\* getImages answers an id it does not hold with `node: null`
Null == [null |-> TRUE]

getImagesKnownOnly(imageIds) ==
    LET known == SelectSeq(imageIds, LAMBDA id : id \in DOMAIN dataProvider.images)
    IN  [k \in 1..Len(known) |->
            [node |-> dataProvider.images[known[k]], node_id |-> known[k]]]

\* getImages(imageIds): imageIds.map(id => ({node, node_id}))
getImages(imageIds) ==
    [k \in 1..Len(imageIds) |->
        [node |-> IF imageIds[k] \in DOMAIN dataProvider.images
                  THEN dataProvider.images[imageIds[k]]
                  ELSE Null,
         node_id |-> imageIds[k]]]

\* getSpatialImages(imageIds)
getSpatialImages(imageIds) == getImages(imageIds)

\* getSequence(sequenceId)
getSequence(sequenceId) ==
    IF sequenceId \in DOMAIN dataProvider.sequences
    THEN Resolved("getSequence", sequenceId, dataProvider.sequences[sequenceId])
    ELSE Rejected("getSequence", sequenceId,
                  Error("Sequence " \o sequenceId \o " not found"))

\* getCoreImages(cellId)
getCoreImages(cellId) ==
    [cell_id |-> cellId,
     images |-> IF cellId \in DOMAIN dataProvider.cells
                THEN dataProvider.cells[cellId]
                ELSE <<>>]

\* what fetch(url) can come back with: a response, or a transport failure
\* that rejects the fetch with the browser's TypeError
Responses ==
    { [kind |-> "response", ok |-> TRUE, status |-> "200"],
      [kind |-> "response", ok |-> FALSE, status |-> "404"],
      [kind |-> "response", ok |-> FALSE, status |-> "500"],
      [kind |-> "failure", ok |-> FALSE, status |-> ""] }

\* getImageBuffer(url), for the outcome of its one fetch(url)
getImageBuffer(url, response) ==
    [op |-> "getImageBuffer",
     arg |-> url,
     fetches |-> 1,
     response |-> response,
     outcome |-> IF response.kind = "response" /\ response.ok
                 THEN "resolved"
                 ELSE "rejected",
     value |-> IF response.kind = "failure"
               THEN [name |-> "TypeError", message |-> "Failed to fetch"]
               ELSE IF ~response.ok
               THEN Error("Failed to load image: " \o url)
               ELSE [arrayBuffer |-> url]]

----------------------------------------------------------------------------
(* The displays (app.js) *)

MinimapZoom == 15

View(front) == IF front THEN "front" ELSE "rear"

\* the engine handle after `viewer.moveTo(imageId)` or `new mapillary.Viewer`
ViewerShowing(imageId) == [defined |-> TRUE, image |-> imageId]

\* `let viewer;` before initViewer runs
NoViewer == [defined |-> FALSE, image |-> ""]

\* the imageId the graph variant asks the engine for
GraphImageId(index, front) == ImageId(PointAt(index).id, View(front))

\* updateImage (flat variant): `./images/${imageFile}`
FlatImageSrc(index, front) ==
    "./images/" \o (IF front THEN PointAt(index).front ELSE PointAt(index).rear)

TitleInfoZeroBased(index, front) ==
    [position |-> index,
     total |-> Length,
     view |-> IF front THEN "Front" ELSE "Rear",
     heading |-> IF front
                 THEN PointAt(index).heading_front
                 ELSE (PointAt(index).heading_front + 180) % 360]

\* updateViewerInfo: the text written to #title-info
TitleInfo(index, front) ==
    [position |-> index + 1,
     total |-> Length,
     view |-> IF front THEN "Front" ELSE "Rear",
     heading |-> IF front
                 THEN PointAt(index).heading_front
                 ELSE (PointAt(index).heading_front + 180) % 360]

\* #title-info before the first updateViewerInfo
NoTitle == [position |-> 0, total |-> 0, view |-> "", heading |-> 0]

PrevDisabledAt(index) == index = 0

NextDisabledAtLength(index) == index = Length

NextDisabledAt(index) == index = Length - 1

\* updateMinimap: setView, remove every CircleMarker, add one at the point
MinimapAt(index) ==
    [center |-> <<PointAt(index).lat, PointAt(index).long>>,
     zoom |-> MinimapZoom,
     markers |-> (minimap.markers \ minimap.markers)
                    \cup {<<PointAt(index).lat, PointAt(index).long>>}]

\* the minimap before the first updateMinimap
NoMinimap == [center |-> <<0, 0>>, zoom |-> 0, markers |-> {}]

\* highlightMarker(index): the style each marker ends with
HighlightMarker(index) ==
    [i \in 1..Length |-> IF i - 1 = index THEN "highlight" ELSE "default"]

GetZoomOfMinimap == MinimapZoom

\* map.getZoom()
GetZoom == map.zoom

\* map.setView([point.lat, point.long], map.getZoom()) in exitViewerMode
MapViewAt(index) ==
    [center |-> <<PointAt(index).lat, PointAt(index).long>>, zoom |-> GetZoom]

Min(a, b) == IF a < b THEN a ELSE b

Max(a, b) == IF a > b THEN a ELSE b

\* fitBounds(bounds): the map is centred on the dataset's bounding box
FitBoundsCenter ==
    LET lats == { surveyData[i].lat : i \in DOMAIN surveyData }
        lngs == { surveyData[i].long : i \in DOMAIN surveyData }
        lo(S) == CHOOSE x \in S : \A y \in S : x <= y
        hi(S) == CHOOSE x \in S : \A y \in S : x >= y
    IN  <<(lo(lats) + hi(lats)) \div 2, (lo(lngs) + hi(lngs)) \div 2>>

AllRefreshes == {"imagery", "info", "minimap", "highlight"}

Event(op, index, image) == [op |-> op, index |-> index, image |-> image]

NoToggle == [count |-> 0, index |-> 0, front |-> TRUE, image |-> ""]

\* the image the imagery surface was last asked to show, or reported showing
Surface == IF variant = "graph" THEN viewer.image ELSE surveyImage

\* the engine's unreported requests after `moveTo(imageId)` or the constructor's
\* imageId: the newest request and the one it overtook, older ones are abandoned
Enqueue(q, imageId) ==
    LET kept == SelectSeq(q, LAMBDA x : x # imageId)
    IN  IF kept = <<>> THEN <<imageId>> ELSE <<kept[Len(kept)], imageId>>

\* the engine has reported imageId: that request is answered and the newer
\* ones stay open; a report of an image nobody asked for is navigation made
\* inside the engine, after which no request counts as open
Dequeue(q, imageId) ==
    IF \E k \in DOMAIN q : q[k] = imageId
    THEN SubSeq(q, (CHOOSE k \in DOMAIN q : q[k] = imageId) + 1, Len(q))
    ELSE <<>>

\* no provider query made yet
NoReply == [op |-> "none"]

\* the controls each mode shows (spec 4.2: the state each event comes from)
FromMapBrowsing == ~isViewerMode

FromViewerActive == isViewerMode

----------------------------------------------------------------------------
(* Initial state: after init() has loaded the rows and built the map *)

Init ==
    /\ variant \in {"graph", "flat"}
    /\ surveyData \in Datasets
    /\ currentPointIndex = 0
    /\ isShowingFront = TRUE
    /\ isViewerMode = FALSE
    /\ viewerInitialized = FALSE
    /\ dataProvider = NoProvider
    /\ viewer = NoViewer
    /\ surveyImage = ""
    /\ titleInfo = NoTitle
    /\ prevDisabled = FALSE     \* a button is enabled until .disabled is set
    /\ nextDisabled = FALSE
    /\ minimap = NoMinimap
    /\ markers = HighlightMarker(0)
    /\ map \in { [center |-> FitBoundsCenter, zoom |-> z] : z \in 0..MaxZoomLevel }
    /\ timers = 0
    /\ lastEvent = Event("init", 0, "")
    /\ refreshed = {}
    /\ threw = FALSE
    /\ toggled = NoToggle
    /\ constructions = 0
    /\ pending = <<>>
    /\ reply = NoReply

----------------------------------------------------------------------------
(* Refreshes *)

updateViewerInfo(index, front) ==
    /\ titleInfo' = TitleInfo(index, front)
    /\ prevDisabled' = PrevDisabledAt(index)
    /\ nextDisabled' = NextDisabledAt(index)

updateMinimap(index) == minimap' = MinimapAt(index)

highlightMarker(index) == markers' = HighlightMarker(index)

\* the four refreshes of a point change, once (index, front) is the new state;
\* in the graph variant `viewer.moveTo` on an undefined viewer raises a
\* TypeError and the rest of the handler is skipped
RefreshPoint(index, front) ==
    IF variant = "flat"
    THEN /\ surveyImage' = FlatImageSrc(index, front)
         /\ updateViewerInfo(index, front)
         /\ updateMinimap(index)
         /\ highlightMarker(index)
         /\ refreshed' = AllRefreshes
         /\ threw' = FALSE
         /\ UNCHANGED <<viewer, pending>>
    ELSE IF viewer.defined
    THEN /\ viewer' = ViewerShowing(GraphImageId(index, front))
         /\ pending' = Enqueue(pending, GraphImageId(index, front))
         /\ updateViewerInfo(index, front)
         /\ updateMinimap(index)
         /\ highlightMarker(index)
         /\ refreshed' = AllRefreshes
         /\ threw' = FALSE
         /\ UNCHANGED surveyImage
    ELSE /\ refreshed' = {}
         /\ threw' = TRUE
         /\ UNCHANGED <<viewer, pending, surveyImage, titleInfo, prevDisabled,
                        nextDisabled, minimap, markers>>

\* the refreshes of the switch-view handler: the image and the info panel
RefreshSide(index, front) ==
    IF variant = "flat"
    THEN /\ surveyImage' = FlatImageSrc(index, front)
         /\ updateViewerInfo(index, front)
         /\ refreshed' = {"imagery", "info"}
         /\ threw' = FALSE
         /\ UNCHANGED <<viewer, pending, minimap, markers>>
    ELSE IF viewer.defined
    THEN /\ viewer' = ViewerShowing(GraphImageId(index, front))
         /\ pending' = Enqueue(pending, GraphImageId(index, front))
         /\ updateViewerInfo(index, front)
         /\ refreshed' = {"imagery", "info"}
         /\ threw' = FALSE
         /\ UNCHANGED <<surveyImage, minimap, markers>>
    ELSE /\ refreshed' = {}
         /\ threw' = TRUE
         /\ UNCHANGED <<viewer, pending, surveyImage, titleInfo, prevDisabled,
                        nextDisabled, minimap, markers>>

NoRefresh ==
    /\ refreshed' = {}
    /\ threw' = FALSE
    /\ UNCHANGED <<viewer, pending, surveyImage, titleInfo, prevDisabled,
                   nextDisabled, minimap, markers>>

----------------------------------------------------------------------------
(* Handlers *)

\* enterViewerMode, with (index, front) the state the click handler has set
enterViewerMode(index, front) ==
    /\ isViewerMode' = TRUE
    /\ IF variant = "graph" /\ ~viewerInitialized
       THEN /\ timers < MaxTimers
            /\ timers' = timers + 1
            /\ NoRefresh
       ELSE /\ RefreshPoint(index, front)
            /\ UNCHANGED timers

\* marker.on('click')
MarkerClicked(index) ==
    /\ FromMapBrowsing
    /\ currentPointIndex' = index
    /\ isShowingFront' = TRUE
    /\ enterViewerMode(index, TRUE)
    /\ lastEvent' = Event("markerClicked", index, "")
    /\ toggled' = NoToggle
    /\ UNCHANGED <<variant, surveyData, constructions, reply, viewerInitialized,
                   dataProvider, map>>

\* exitViewerMode, bound to #close-viewer-btn and to #minimap-container
ExitViewerMode(source) ==
    /\ FromViewerActive
    /\ isViewerMode' = FALSE
    /\ map' = MapViewAt(currentPointIndex)
    /\ highlightMarker(currentPointIndex)
    /\ refreshed' = {"highlight"}
    /\ threw' = FALSE
    /\ lastEvent' = Event(source, 0, "")
    /\ toggled' = NoToggle
    /\ UNCHANGED <<variant, surveyData, constructions, reply, currentPointIndex, isShowingFront,
                   viewerInitialized, dataProvider, viewer, pending, surveyImage,
                   titleInfo, prevDisabled, nextDisabled, minimap, timers>>

PrevGuardAtZero == currentPointIndex >= 0

PrevGuard == currentPointIndex > 0

NextGuardPastEnd == currentPointIndex < Length

NextGuard == currentPointIndex < Length - 1

\* #prev-point-btn click
Prev ==
    /\ FromViewerActive
    /\ IF PrevGuard
       THEN /\ currentPointIndex' = currentPointIndex - 1
            /\ RefreshPoint(currentPointIndex - 1, isShowingFront)
       ELSE /\ UNCHANGED currentPointIndex
            /\ NoRefresh
    /\ lastEvent' = Event("prev", 0, "")
    /\ toggled' = NoToggle
    /\ UNCHANGED <<variant, surveyData, constructions, reply, isShowingFront, isViewerMode,
                   viewerInitialized, dataProvider, map, timers>>

\* #next-point-btn click
NextPoint ==
    /\ FromViewerActive
    /\ IF NextGuard
       THEN /\ currentPointIndex' = currentPointIndex + 1
            /\ RefreshPoint(currentPointIndex + 1, isShowingFront)
       ELSE /\ UNCHANGED currentPointIndex
            /\ NoRefresh
    /\ lastEvent' = Event("next", 0, "")
    /\ toggled' = NoToggle
    /\ UNCHANGED <<variant, surveyData, constructions, reply, isShowingFront, isViewerMode,
                   viewerInitialized, dataProvider, map, timers>>

SwitchedSideToFront(front) == TRUE

\* isShowingFront = !isShowingFront
SwitchedSide(front) == ~front

\* #switch-view-btn click
SwitchView ==
    /\ FromViewerActive
    /\ isShowingFront' = SwitchedSide(isShowingFront)
    /\ RefreshSide(currentPointIndex, SwitchedSide(isShowingFront))
    /\ lastEvent' = Event("switchView", 0, "")
    /\ toggled' = IF toggled.count = 1
                  THEN [toggled EXCEPT !.count = 2]
                  ELSE [count |-> 1, index |-> currentPointIndex,
                        front |-> isShowingFront, image |-> Surface]
    /\ UNCHANGED <<variant, surveyData, constructions, reply, currentPointIndex, isViewerMode,
                   viewerInitialized, dataProvider, map, timers>>

InitViewerRunsAgain == TRUE

\* initViewer: `if (viewerInitialized) return;`
InitViewerRuns == ~viewerInitialized

\* the setTimeout callback of enterViewerMode: initViewer, then the refreshes
DeferredInit ==
    /\ timers > 0
    /\ timers' = timers - 1
    /\ IF InitViewerRuns
       THEN /\ dataProvider' = ProcessSurveyData(surveyData)
            /\ constructions' = constructions + 1
            /\ viewer' = ViewerShowing(ImageId(PointAt(currentPointIndex).id, "front"))
            /\ pending' = Enqueue(pending, ImageId(PointAt(currentPointIndex).id, "front"))
            /\ viewerInitialized' = TRUE
            /\ refreshed' = AllRefreshes
       ELSE /\ UNCHANGED <<dataProvider, constructions, viewer, pending,
                           viewerInitialized>>
            /\ refreshed' = {"info", "minimap", "highlight"}
    /\ updateViewerInfo(currentPointIndex, isShowingFront)
    /\ updateMinimap(currentPointIndex)
    /\ highlightMarker(currentPointIndex)
    /\ threw' = FALSE
    /\ lastEvent' = Event("timer", 0, "")
    /\ toggled' = NoToggle
    /\ UNCHANGED <<variant, surveyData, reply, currentPointIndex, isShowingFront,
                   isViewerMode, surveyImage, map>>

\* surveyData.findIndex(p => p.id === pointId)
FindIndexOrFirst(pointId) ==
    IF \E i \in DOMAIN surveyData : surveyData[i].id = pointId
    THEN (CHOOSE i \in DOMAIN surveyData :
            /\ surveyData[i].id = pointId
            /\ \A j \in DOMAIN surveyData : surveyData[j].id = pointId => i <= j) - 1
    ELSE 0

\* surveyData.findIndex(p => p.id === image.point_id)
FindIndex(pointId) ==
    IF \E i \in DOMAIN surveyData : surveyData[i].id = pointId
    THEN (CHOOSE i \in DOMAIN surveyData :
            /\ surveyData[i].id = pointId
            /\ \A j \in DOMAIN surveyData : surveyData[j].id = pointId => i <= j) - 1
    ELSE -1

\* image.id.includes('_front')
ShowsFront(image) == Includes(image.id, "_front")

ResolvesIfAwaited(image) ==
    /\ image.point_id # ""
    /\ FindIndex(image.point_id) # -1
    /\ (pending = <<>> \/ pending[Len(pending)] = image.id)

\* `if (image && image.point_id)` and `if (index !== -1)`
Resolves(image) ==
    /\ image.point_id # ""
    /\ FindIndex(image.point_id) # -1

\* viewer.on('image'): the engine reports the image entity it now shows; its
\* surface can show only an image that its provider serves
OnImage(image) ==
    /\ viewerInitialized
    /\ viewer' = IF image.id \in DOMAIN dataProvider.images
                 THEN ViewerShowing(image.id)
                 ELSE viewer
    /\ pending' = Dequeue(pending, image.id)
    /\ IF Resolves(image)
       THEN /\ currentPointIndex' = FindIndex(image.point_id)
            /\ isShowingFront' = ShowsFront(image)
            /\ IF isViewerMode
               THEN /\ updateViewerInfo(FindIndex(image.point_id), ShowsFront(image))
                    /\ updateMinimap(FindIndex(image.point_id))
                    /\ highlightMarker(FindIndex(image.point_id))
                    /\ refreshed' = AllRefreshes
               ELSE /\ refreshed' = {}
                    /\ UNCHANGED <<titleInfo, prevDisabled, nextDisabled, minimap,
                                   markers>>
       ELSE /\ refreshed' = {}
            /\ UNCHANGED <<currentPointIndex, isShowingFront, titleInfo,
                           prevDisabled, nextDisabled, minimap, markers>>
    /\ threw' = FALSE
    /\ lastEvent' = Event("image", 0, image.id)
    /\ toggled' = NoToggle
    /\ UNCHANGED <<variant, surveyData, constructions, reply, isViewerMode, viewerInitialized,
                   dataProvider, surveyImage, map, timers>>

\* #zoom-in click: map.zoomIn(), which stops at the map's largest zoom
ZoomIn ==
    /\ FromMapBrowsing
    /\ map' = [map EXCEPT !.zoom = Min(map.zoom + 1, MaxZoomLevel)]
    /\ NoRefresh
    /\ lastEvent' = Event("zoomIn", 0, "")
    /\ toggled' = NoToggle
    /\ UNCHANGED <<variant, surveyData, constructions, reply, currentPointIndex, isShowingFront,
                   isViewerMode, viewerInitialized, dataProvider, timers>>

\* #zoom-out click: map.zoomOut(), which stops at zoom 0
ZoomOut ==
    /\ FromMapBrowsing
    /\ map' = [map EXCEPT !.zoom = Max(map.zoom - 1, 0)]
    /\ NoRefresh
    /\ lastEvent' = Event("zoomOut", 0, "")
    /\ toggled' = NoToggle
    /\ UNCHANGED <<variant, surveyData, constructions, reply, currentPointIndex, isShowingFront,
                   isViewerMode, viewerInitialized, dataProvider, timers>>

Next ==
    \/ \E index \in 0..(Length - 1) : MarkerClicked(index)
    \/ \E source \in {"closeViewer", "minimapClicked"} : ExitViewerMode(source)
    \/ Prev
    \/ NextPoint
    \/ SwitchView
    \/ DeferredInit
    \/ \E id \in DOMAIN dataProvider.images : OnImage(dataProvider.images[id])
    \/ ZoomIn
    \/ ZoomOut

Spec == Init /\ [][Next]_vars

\* image entities the handler's guards are written for: of a point that is not
\* in surveyData, or carrying no point_id
UnresolvedImages ==
    { FrontImage(Row("9", 14, 26, 45, "f9.jpg", "r9.jpg")),
      CreateImageEnt("orphan_front", "seq_front", 0, 0, 0, "", "") }

\* the engine too may report an image that resolves to no point
NextUnresolved ==
    \/ Next
    \/ \E image \in UnresolvedImages : OnImage(image)

SpecUnresolved == Init /\ [][NextUnresolved]_vars

----------------------------------------------------------------------------
(* The provider on its own: built from a dataset, then queried by its client *)

\* datasets handed to `new CustomDataProvider(surveyData)`: those of the page,
\* and one point for every integer heading
ProviderDatasets ==
    Datasets \cup { <<Row("7", 10, 20, h, "f7.jpg", "r7.jpg")>> : h \in 0..MaxHeading }

InitProvider ==
    /\ variant = "graph"
    /\ surveyData \in ProviderDatasets
    /\ currentPointIndex = 0
    /\ isShowingFront = TRUE
    /\ isViewerMode = FALSE
    /\ viewerInitialized = FALSE
    /\ dataProvider = ProcessSurveyData(surveyData)
    /\ viewer = NoViewer
    /\ surveyImage = ""
    /\ titleInfo = NoTitle
    /\ prevDisabled = FALSE
    /\ nextDisabled = FALSE
    /\ minimap = NoMinimap
    /\ markers = HighlightMarker(0)
    /\ map = [center |-> FitBoundsCenter, zoom |-> 0]
    /\ timers = 0
    /\ lastEvent = Event("init", 0, "")
    /\ refreshed = {}
    /\ threw = FALSE
    /\ toggled = NoToggle
    /\ constructions = 1
    /\ pending = <<>>
    /\ reply = NoReply

\* a query reads the provider and changes nothing; the model follows one
\* query at a time, from the call to the client taking the promise
Query(answer) ==
    /\ dataProvider.built
    /\ reply = NoReply
    /\ reply' = answer
    /\ UNCHANGED <<variant, surveyData, currentPointIndex, isShowingFront,
                   isViewerMode, viewerInitialized, dataProvider, viewer,
                   surveyImage, titleInfo, prevDisabled, nextDisabled, minimap,
                   markers, map, timers, lastEvent, refreshed, threw, toggled,
                   constructions, pending>>

\* ids a client may ask for: those the provider holds and some it does not
IdUniverse == DOMAIN dataProvider.images \cup {"point0_front", "seq_front"}

IdLists == UNION { [1..n -> IdUniverse] : n \in 0..MaxIds }

GetImages(imageIds) == Query(Resolved("getImages", imageIds, getImages(imageIds)))

GetSpatialImages(imageIds) ==
    Query(Resolved("getSpatialImages", imageIds, getSpatialImages(imageIds)))

GetSequence(sequenceId) == Query(getSequence(sequenceId))

GetCoreImages(cellId) == Query(Resolved("getCoreImages", cellId, getCoreImages(cellId)))

GetImageBuffer(url, response) == Query(getImageBuffer(url, response))

\* getCluster(url)
GetCluster(url) ==
    Query(Resolved("getCluster", url,
                   [points |-> <<>>, reference |-> [lat |-> 0, lng |-> 0, alt |-> 0]]))

\* getMesh(url)
GetMesh(url) == Query(Resolved("getMesh", url, [faces |-> <<>>, vertices |-> <<>>]))

\* getImageTiles(tiles)
GetImageTiles ==
    Query(Rejected("getImageTiles", "", Error("Image tiles not supported")))

\* the client has taken the settled promise
TakeReply ==
    /\ reply # NoReply
    /\ reply' = NoReply
    /\ UNCHANGED <<variant, surveyData, currentPointIndex, isShowingFront,
                   isViewerMode, viewerInitialized, dataProvider, viewer,
                   surveyImage, titleInfo, prevDisabled, nextDisabled, minimap,
                   markers, map, timers, lastEvent, refreshed, threw, toggled,
                   constructions, pending>>

ThumbUrls == { dataProvider.images[id].thumb.url : id \in DOMAIN dataProvider.images }

NextProvider ==
    \/ \E imageIds \in IdLists : GetImages(imageIds)
    \/ \E imageIds \in IdLists : GetSpatialImages(imageIds)
    \/ \E sequenceId \in {"seq_front", "seq_rear", "seq_side", ""} :
          GetSequence(sequenceId)
    \/ \E cellId \in DOMAIN dataProvider.cells \cup {CellId(0, 0)} :
          GetCoreImages(cellId)
    \/ \E url \in ThumbUrls, response \in Responses : GetImageBuffer(url, response)
    \/ \E id \in DOMAIN dataProvider.images : GetCluster(id \o "_cluster")
    \/ \E id \in DOMAIN dataProvider.images : GetMesh(id \o "_mesh")
    \/ GetImageTiles
    \/ TakeReply

SpecProvider == InitProvider /\ [][NextProvider]_vars

----------------------------------------------------------------------------
(* The loader (loadCSVData, init): from the cells of data.csv to surveyData *)

Digits == "0123456789"

DigitValue(c) == (CHOOSE k \in 1..Len(Digits) : SubSeq(Digits, k, k) = c) - 1

\* the cell reads as a number
IsNumeric(text) ==
    /\ text # ""
    /\ \A k \in 1..Len(text) : Includes(Digits, SubSeq(text, k, k))

RECURSIVE ParseInt(_)
ParseInt(text) ==
    IF text = ""
    THEN 0
    ELSE ParseInt(SubSeq(text, 1, Len(text) - 1)) * 10
            + DigitValue(SubSeq(text, Len(text), Len(text)))

\* dynamicTyping: true -- an empty cell becomes null, a numeric one a number,
\* any other stays a string
DynamicTyping(text) ==
    IF text = ""
    THEN [type |-> "null", number |-> 0, string |-> ""]
    ELSE IF IsNumeric(text)
    THEN [type |-> "number", number |-> ParseInt(text), string |-> text]
    ELSE [type |-> "string", number |-> 0, string |-> text]

\* the truthiness JavaScript gives a value in `a && b`
Truthy(value) ==
    CASE value.type = "null" -> FALSE
      [] value.type = "number" -> value.number # 0
      [] value.type = "string" -> value.string # ""

\* the filter callback of loadCSVData, per variant
FilterKeeps(row) ==
    /\ Truthy(DynamicTyping(row.id))
    /\ Truthy(DynamicTyping(row.lat))
    /\ Truthy(DynamicTyping(row.long))
    /\ Truthy(DynamicTyping(row.heading_front))
    /\ variant = "flat"
       => Truthy(DynamicTyping(row.front)) /\ Truthy(DynamicTyping(row.rear))

\* the row object the pages work with: id as String(id) reads it, the
\* position and heading as numbers
ParsedRow(row) ==
    Row(row.id, DynamicTyping(row.lat).number, DynamicTyping(row.long).number,
        DynamicTyping(row.heading_front).number, row.front, row.rear)

\* loadCSVData, for the rows Papa.parse hands to `complete`
loadCSVData(rows) ==
    IF Len(rows) > 0
    THEN LET validData == SelectSeq(rows, FilterKeeps)
         IN  IF Len(validData) = 0
             THEN Rejected("loadCSVData", rows, Error("No valid data in CSV"))
             ELSE Resolved("loadCSVData", rows,
                           SortById({ ParsedRow(validData[k]) :
                                        k \in 1..Len(validData) }))
    ELSE Rejected("loadCSVData", rows, Error("No data in CSV"))

\* rows of a data.csv: two complete rows, and each of them with one cell left
\* empty or holding 0
CsvRows ==
    LET good == { Row("1", "10", "20", "90", "f1.jpg", "r1.jpg"),
                  Row("2", "12", "22", "180", "f2.jpg", "r2.jpg") }
    IN  good
        \cup { [r EXCEPT !.id = v] : r \in good, v \in {"", "0"} }
        \cup { [r EXCEPT !.lat = v] : r \in good, v \in {"", "0"} }
        \cup { [r EXCEPT !.long = v] : r \in good, v \in {"", "0"} }
        \cup { [r EXCEPT !.heading_front = v] : r \in good, v \in {"", "0"} }
        \cup { [r EXCEPT !.front = ""] : r \in good }
        \cup { [r EXCEPT !.rear = ""] : r \in good }

\* the files: up to MaxRows rows, ids unique as the data model demands
CsvFiles ==
    { rows \in UNION { [1..n -> CsvRows] : n \in 0..MaxRows } :
        \A i, j \in DOMAIN rows : (i # j /\ rows[i].id # "") => rows[i].id # rows[j].id }

\* the page before init() has run
InitLoader ==
    /\ variant \in {"graph", "flat"}
    /\ surveyData = <<>>
    /\ currentPointIndex = 0
    /\ isShowingFront = TRUE
    /\ isViewerMode = FALSE
    /\ viewerInitialized = FALSE
    /\ dataProvider = NoProvider
    /\ viewer = NoViewer
    /\ surveyImage = ""
    /\ titleInfo = NoTitle
    /\ prevDisabled = FALSE
    /\ nextDisabled = FALSE
    /\ minimap = NoMinimap
    /\ markers = <<>>
    /\ map = [center |-> <<0, 0>>, zoom |-> 0]
    /\ timers = 0
    /\ lastEvent = Event("load", 0, "")
    /\ refreshed = {}
    /\ threw = FALSE
    /\ toggled = NoToggle
    /\ constructions = 0
    /\ pending = <<>>
    /\ reply = NoReply

\* init(): await loadCSVData(), then initMap and the rest; a rejection goes to
\* showError and nothing is set up
InitFromCsv(rows) ==
    /\ reply = NoReply
    /\ reply' = loadCSVData(rows)
    /\ IF loadCSVData(rows).outcome = "resolved"
       THEN /\ surveyData' = loadCSVData(rows).value
            /\ markers' = HighlightMarker(0)'
            /\ \E z \in 0..MaxZoomLevel : map' = [center |-> FitBoundsCenter', zoom |-> z]
            /\ lastEvent' = Event("init", 0, "")
       ELSE /\ UNCHANGED <<surveyData, markers, map>>
            /\ lastEvent' = Event("showError", 0, "")
    /\ UNCHANGED <<variant, currentPointIndex, isShowingFront, isViewerMode,
                   viewerInitialized, dataProvider, viewer, surveyImage,
                   titleInfo, prevDisabled, nextDisabled, minimap, timers,
                   refreshed, threw, toggled, constructions, pending>>

NextLoader == \E rows \in CsvFiles : InitFromCsv(rows)

SpecLoader == InitLoader /\ [][NextLoader]_vars

----------------------------------------------------------------------------
(* Properties *)

Position(index) == <<PointAt(index).lat, PointAt(index).long>>

\* s ends with the suffix sub
EndsWith(s, sub) ==
    /\ Len(sub) <= Len(s)
    /\ SubSeq(s, Len(s) - Len(sub) + 1, Len(s)) = sub

Highlighted == { i \in DOMAIN markers : markers[i] = "highlight" }

ImageFor(index, front) ==
    IF variant = "graph" THEN GraphImageId(index, front) ELSE FlatImageSrc(index, front)

\* C1: in every reachable state currentPointIndex is a valid index of the
\* dataset: 0 <= currentPointIndex < dataset.length.
C1_IndexInRange == currentPointIndex \in 0..(Length - 1)

C1_Witness ==
    /\ lastEvent.op = "next"
    /\ Length = 3
    /\ currentPointIndex = Length - 1
    /\ ~threw

\* C2: prev at index 0 and next at the last index change nothing: the
\* NavigationState and every display stay as they were, no refresh is issued
\* and no error is raised.
C2_BoundaryNoOp ==
    [][((lastEvent'.op = "prev" /\ currentPointIndex = 0)
          \/ (lastEvent'.op = "next" /\ currentPointIndex = Length - 1))
        => /\ UNCHANGED <<currentPointIndex, isShowingFront, isViewerMode>>
           /\ UNCHANGED <<viewer, surveyImage, titleInfo, prevDisabled,
                          nextDisabled, minimap, markers, map>>
           /\ refreshed' = {}
           /\ ~threw']_vars

C2_Witness ==
    /\ lastEvent.op = "prev"
    /\ Length = 1
    /\ currentPointIndex = 0
    /\ refreshed = {}
    /\ ~threw

C4_ToggleInvolution ==
    toggled.count = 2
        => /\ currentPointIndex = toggled.index
           /\ isShowingFront = toggled.front
           /\ Surface = toggled.image

\* C5: a guarded prev decreases the index by exactly 1, a guarded next
\* increases it by exactly 1, both keeping side and mode; switchView negates
\* the side and keeps index and mode.
C5_StepEffects ==
    [][/\ (lastEvent'.op = "prev" /\ currentPointIndex > 0)
          => /\ currentPointIndex' = currentPointIndex - 1
             /\ UNCHANGED <<isShowingFront, isViewerMode>>
       /\ (lastEvent'.op = "next" /\ currentPointIndex < Length - 1)
          => /\ currentPointIndex' = currentPointIndex + 1
             /\ UNCHANGED <<isShowingFront, isViewerMode>>
       /\ lastEvent'.op = "switchView"
          => /\ isShowingFront' = ~isShowingFront
             /\ UNCHANGED <<currentPointIndex, isViewerMode>>]_vars

C5_Witness ==
    /\ lastEvent.op = "switchView"
    /\ toggled.count = 1
    /\ toggled.front
    /\ ~isShowingFront
    /\ currentPointIndex = 1
    /\ ~threw

\* C6: in every reachable state the image on the imagery surface, the info
\* panel, the minimap's marker and the highlighted map marker all show the
\* current (currentPointIndex, isShowingFront).
C6_DisplaysInSync ==
    /\ Surface # "" => Surface = ImageFor(currentPointIndex, isShowingFront)
    /\ titleInfo # NoTitle => titleInfo = TitleInfo(currentPointIndex, isShowingFront)
    /\ minimap # NoMinimap
          => /\ minimap.center = Position(currentPointIndex)
             /\ minimap.markers = {Position(currentPointIndex)}
    /\ Highlighted = {currentPointIndex + 1}

\* C7: every handler run that changes currentPointIndex or isShowingFront
\* issues all four refreshes in that same run.
C7_AllFourRefreshes ==
    [][(currentPointIndex' # currentPointIndex \/ isShowingFront' # isShowingFront)
        => refreshed' = AllRefreshes]_vars

C9_ExitViewer ==
    [][lastEvent'.op \in {"closeViewer", "minimapClicked"}
        => /\ ~isViewerMode'
           /\ UNCHANGED <<currentPointIndex, isShowingFront>>
           /\ map'.center = Position(currentPointIndex)
           /\ map'.zoom = map.zoom
           /\ { i \in DOMAIN markers' : markers'[i] = "highlight" }
                 = {currentPointIndex + 1}]_vars

C9_Witness ==
    /\ lastEvent.op = "minimapClicked"
    /\ ~isViewerMode
    /\ Length = 3
    /\ currentPointIndex = 2
    /\ map.center = Position(2)
    /\ map.center # FitBoundsCenter
    /\ map.zoom > 0
    /\ Highlighted = {3}

\* C10: an engine report of the entity built for (point p, side s) sets the
\* index to p's index and isShowingFront to (s = front), the side being the
\* image id's suffix; it never changes mode and refreshes the displays only
\* in ViewerActive.
C10_EngineReport ==
    [][lastEvent'.op = "image"
        => \A i \in DOMAIN surveyData : \A front \in BOOLEAN :
              dataProvider.images[lastEvent'.image]
                    = (IF front THEN FrontImage(surveyData[i])
                                ELSE RearImage(surveyData[i]))
                 => /\ currentPointIndex' = i - 1
                    /\ isShowingFront' = front
                    /\ isShowingFront' = EndsWith(lastEvent'.image, "_front")
                    /\ UNCHANGED isViewerMode
                    /\ refreshed' # {} => isViewerMode]_vars

\* C11: an engine report whose image resolves to no point (no point_id, or a
\* point_id that no row of surveyData has) is a silent no-op: index, side and
\* mode keep their values, no display is refreshed and nothing is thrown.
C11_UnresolvedReport ==
    [][\A image \in UnresolvedImages :
          (lastEvent'.op = "image" /\ lastEvent'.image = image.id)
          => /\ UNCHANGED <<currentPointIndex, isShowingFront, isViewerMode>>
             /\ UNCHANGED <<surveyImage, titleInfo, prevDisabled, nextDisabled,
                            minimap, markers, map>>
             /\ refreshed' = {}
             /\ ~threw']_vars

C11_Witness ==
    /\ lastEvent.op = "image"
    /\ \E image \in UnresolvedImages :
          /\ lastEvent.image = image.id
          /\ image.point_id # ""
    /\ isViewerMode
    /\ currentPointIndex > 0
    /\ refreshed = {}

\* C12: the engine and its provider are built at most once, whatever the
\* events and however many timers were armed before the first one ran; in the
\* graph variant no info, minimap or marker refresh of an entry into the viewer
\* happens before they are built; and an entry made once they are built arms
\* no timer, builds nothing and asks the engine for the clicked point's front
\* image directly.
C12_DeferredOneShot ==
    [][/\ constructions' <= 1
       /\ (constructions' = 1) = viewerInitialized'
       /\ viewerInitialized' => (dataProvider'.built /\ viewer'.defined)
       /\ (/\ variant = "graph"
           /\ lastEvent'.op \in {"markerClicked", "timer"}
           /\ refreshed' # {})
          => constructions' = 1
       /\ (variant = "graph" /\ (titleInfo' # NoTitle \/ minimap' # NoMinimap))
          => constructions' = 1
       /\ (lastEvent'.op = "markerClicked" /\ viewerInitialized)
          => /\ UNCHANGED <<constructions, timers, dataProvider, viewerInitialized>>
             /\ viewer' = ViewerShowing("point" \o PointAt(lastEvent'.index).id
                                           \o "_front")
             /\ refreshed' = AllRefreshes]_vars

C12_Witness ==
    /\ lastEvent.op = "timer"
    /\ constructions = 1
    /\ refreshed = {"info", "minimap", "highlight"}
    /\ timers = 0
    /\ ~isViewerMode

\* the app asked for imageId, then for another image, and the engine has
\* reported neither yet
Overtaken(imageId) == Len(pending) = 2 /\ pending[1] = imageId

\* C13: nothing discards the report of a request that a newer request has
\* overtaken: the handler applies it like any other, so index and side (and in
\* the viewer the info panel, minimap and marker) take the older request's
\* values while the newer request is still open.
C13_StaleReportApplied ==
    [][\A id \in DOMAIN dataProvider.images :
          (lastEvent'.op = "image" /\ lastEvent'.image = id /\ Overtaken(id))
          => /\ PointAt(currentPointIndex').id = dataProvider.images[id].point_id
             /\ ~Includes(dataProvider.images[id].point_id, "_front")
                => /\ ImageFor(currentPointIndex', isShowingFront') = id
                   /\ ImageFor(currentPointIndex', isShowingFront') # pending[2]
             /\ pending' = <<pending[2]>>
             /\ isViewerMode
                => /\ refreshed' = AllRefreshes
                   /\ titleInfo'.position = currentPointIndex' + 1
                   /\ minimap' = MinimapAt(currentPointIndex')
                   /\ Highlighted' = {currentPointIndex' + 1}]_vars

C13_Witness ==
    /\ lastEvent.op = "image"
    /\ isViewerMode
    /\ Len(pending) = 1
    /\ pending[1] # lastEvent.image
    /\ ImageFor(currentPointIndex, isShowingFront) = lastEvent.image
    /\ PointAt(currentPointIndex).id # dataProvider.images[pending[1]].point_id
    /\ titleInfo.position = currentPointIndex + 1
    /\ refreshed = AllRefreshes

\* C14: getImages and getSpatialImages answer a list of ids with a list of the
\* same length whose k-th element carries the k-th id, with the entity stored
\* under that id when the provider holds it and a null node when it does not;
\* unknown and repeated ids included.
C14_ImagesById ==
    reply.op \in {"getImages", "getSpatialImages"}
    => /\ reply.outcome = "resolved"
       /\ Len(reply.value) = Len(reply.arg)
       /\ \A k \in 1..Len(reply.arg) :
             /\ reply.value[k].node_id = reply.arg[k]
             /\ \/ /\ \E i \in DOMAIN surveyData :
                         reply.arg[k] \in { "point" \o surveyData[i].id \o "_front",
                                            "point" \o surveyData[i].id \o "_rear" }
                   /\ reply.value[k].node.id = reply.arg[k]
                   /\ reply.value[k].node = dataProvider.images[reply.arg[k]]
                \/ /\ \A i \in DOMAIN surveyData :
                         reply.arg[k] \notin { "point" \o surveyData[i].id \o "_front",
                                               "point" \o surveyData[i].id \o "_rear" }
                   /\ reply.value[k].node = Null

C14_Witness ==
    /\ reply.op = "getSpatialImages"
    /\ Len(reply.arg) = 2
    /\ reply.arg[1] = "point0_front"
    /\ reply.value[1].node = Null
    /\ reply.value[2].node # Null
    /\ reply.value[2].node_id = reply.arg[2]

\* C15: getSequence("seq_front") resolves to the front image ids in dataset
\* order, one per point, and getSequence("seq_rear") to the rear image ids in
\* the same order; any other sequence id is rejected with a not-found error
\* naming it.
C15_SequenceOrder ==
    reply.op = "getSequence"
    => IF reply.arg \in {"seq_front", "seq_rear"}
       THEN /\ reply.outcome = "resolved"
            /\ reply.value.id = reply.arg
            /\ Len(reply.value.image_ids) = Len(surveyData)
            /\ \A i \in DOMAIN surveyData :
                  reply.value.image_ids[i] =
                     "point" \o surveyData[i].id
                        \o (IF reply.arg = "seq_front" THEN "_front" ELSE "_rear")
       ELSE /\ reply.outcome = "rejected"
            /\ reply.value.name = "Error"
            /\ reply.value.message = "Sequence " \o reply.arg \o " not found"

C15_Witness ==
    /\ reply.op = "getSequence"
    /\ reply.arg = "seq_rear"
    /\ Len(surveyData) = 3
    /\ reply.value.image_ids[1] # reply.value.image_ids[3]
    /\ reply.value.image_ids[3] = "point" \o surveyData[3].id \o "_rear"

\* the entries of the cell buckets: cell, place in the bucket, image
Bucketed ==
    UNION { {c} \X DOMAIN dataProvider.cells[c] : c \in DOMAIN dataProvider.cells }

\* C16: after construction every image of the id map sits in exactly one cell
\* bucket, the one of its own position, exactly once; the buckets together hold
\* the images of the id map and nothing else; no bucket is empty; and
\* getCoreImages hands out the bucket of the cell asked for, or nothing for a
\* cell without images.
C16_SpatialPartition ==
    /\ \A id \in DOMAIN dataProvider.images :
          /\ Cardinality({ e \in Bucketed :
                             dataProvider.cells[e[1]][e[2]].id = id }) = 1
          /\ \A e \in Bucketed :
                dataProvider.cells[e[1]][e[2]].id = id
                => /\ dataProvider.cells[e[1]][e[2]] = dataProvider.images[id]
                   /\ e[1] = CellId(dataProvider.images[id].computed_geometry.lat,
                                    dataProvider.images[id].computed_geometry.lng)
    /\ { dataProvider.cells[e[1]][e[2]] : e \in Bucketed }
          = { dataProvider.images[id] : id \in DOMAIN dataProvider.images }
    /\ \A c \in DOMAIN dataProvider.cells : Len(dataProvider.cells[c]) > 0
    /\ reply.op = "getCoreImages"
       => /\ reply.outcome = "resolved"
          /\ reply.value.cell_id = reply.arg
          /\ { reply.value.images[k] : k \in DOMAIN reply.value.images }
                = { dataProvider.images[id] : id \in
                      { x \in DOMAIN dataProvider.images :
                          CellId(dataProvider.images[x].computed_geometry.lat,
                                 dataProvider.images[x].computed_geometry.lng)
                             = reply.arg } }
          /\ Len(reply.value.images)
                = Cardinality({ reply.value.images[k] : k \in DOMAIN reply.value.images })

C16_Witness ==
    /\ reply.op = "getCoreImages"
    /\ Len(reply.value.images) = 4
    /\ Cardinality(DOMAIN dataProvider.cells) = 2
    /\ Cardinality(DOMAIN dataProvider.images) = 6

\* C17: for a point whose heading_front is an integer of 0..360 the rear
\* heading, in the rear entity and in the info panel alike, is heading_front
\* turned by half a circle and brought back into 0..359 (0 gives 180, 359
\* gives 179, 90/180/270 give 270/0/90); the front entity keeps heading_front.
C17_RearHeading ==
    \A i \in DOMAIN surveyData :
       LET h == surveyData[i].heading_front
           turned == IF h < 180 THEN h + 180 ELSE h - 180
           rear == dataProvider.images["point" \o surveyData[i].id \o "_rear"]
           front == dataProvider.images["point" \o surveyData[i].id \o "_front"]
       IN  h \in 0..360
           => /\ turned \in 0..359
              /\ rear.computed_rotation[3] = turned
              /\ front.computed_rotation[3] = h
              /\ TitleInfo(i - 1, FALSE).heading = turned
              /\ TitleInfo(i - 1, TRUE).heading = h
              /\ (h = 0) => (rear.computed_rotation[3] = 180)
              /\ (h = 359) => (rear.computed_rotation[3] = 179)
              /\ (h = 90) => (rear.computed_rotation[3] = 270)
              /\ (h = 180) => (rear.computed_rotation[3] = 0)
              /\ (h = 270) => (rear.computed_rotation[3] = 90)

C17_Witness ==
    /\ Len(surveyData) = 1
    /\ surveyData[1].heading_front = 359
    /\ reply.op = "getImages"
    /\ Len(reply.value) = 1
    /\ reply.value[1].node_id = "point" \o surveyData[1].id \o "_rear"
    /\ reply.value[1].node.computed_rotation[3] = 179

\* C18: getImageBuffer makes exactly one fetch; when the response is not a
\* success, and when the transport fails, it is rejected with an error that
\* carries the requested URL and (for a response) its status, and the provider
\* is as it was built.
C18_FetchFailure ==
    reply.op = "getImageBuffer"
    => /\ reply.fetches = 1
       /\ dataProvider = ProcessSurveyData(surveyData)
       /\ (reply.response.kind = "response" /\ reply.response.ok)
          => reply.outcome = "resolved"
       /\ ~(reply.response.kind = "response" /\ reply.response.ok)
          => /\ reply.outcome = "rejected"
             /\ Includes(reply.value.message, reply.arg)
             /\ reply.response.kind = "response"
                => Includes(reply.value.message, reply.response.status)

\* C19: in the graph variant a prev, next or switch-view handler that changes
\* index or side finds the viewer engine built: it goes on to ask the engine
\* for the image and to refresh the info panel, and does not abort.
C19_HandlersHaveEngine ==
    [][(/\ variant = "graph"
        /\ lastEvent'.op \in {"prev", "next", "switchView"}
        /\ <<currentPointIndex, isShowingFront>>'
              # <<currentPointIndex, isShowingFront>>)
       => /\ viewer.defined
          /\ ~threw'
          /\ viewer' = ViewerShowing("point" \o PointAt(currentPointIndex').id \o "_"
                                        \o (IF isShowingFront' THEN "front" ELSE "rear"))
          /\ {"imagery", "info"} \subseteq refreshed']_vars

\* C20: the deferred initialization acts only in the viewer: a timer callback
\* builds the engine or refreshes info panel and minimap only while
\* isViewerMode holds.
C20_InitOnlyInViewer ==
    [][(/\ lastEvent'.op = "timer"
        /\ \/ constructions' # constructions
           \/ viewer'.defined /\ ~viewer.defined
           \/ refreshed' \cap {"imagery", "info", "minimap"} # {})
       => isViewerMode]_vars

\* C21: whenever the page is on the map (isViewerMode is false) exactly one
\* marker is highlighted and it is the marker of currentPointIndex: at the
\* start, after the viewer is closed, and after an engine report that arrives
\* while the map is shown.
C21_MapHighlight ==
    ~isViewerMode
    => /\ Cardinality(Highlighted) = 1
       /\ Highlighted = {currentPointIndex + 1}

\* the columns a row must fill, per variant
RequiredPresent(row) ==
    /\ row.id # ""
    /\ row.lat # ""
    /\ row.long # ""
    /\ row.heading_front # ""
    /\ variant = "flat" => (row.front # "" /\ row.rear # "")

\* C22: the loader keeps a row exactly when every required cell of the row is
\* filled, whatever it holds (0 included), and drops the others; loading is
\* rejected with a dataset error exactly when no row is kept.
C22_LoaderKeepsPresentRows ==
    reply.op = "loadCSVData"
    => LET present == SelectSeq(reply.arg, RequiredPresent)
       IN  /\ (reply.outcome = "rejected") = (Len(present) = 0)
           /\ reply.outcome = "rejected"
              => /\ surveyData = <<>>
                 /\ reply.value.name = "Error"
           /\ reply.outcome = "resolved"
              => /\ Len(surveyData) = Len(present)
                 /\ { surveyData[i].id : i \in DOMAIN surveyData }
                       = { present[k].id : k \in DOMAIN present }

============================================================================
